---- MODULE Spec2Model ----
(***************************************************************************)
(* Model of src/DEV_MA/DIFF_EV.CPP: differential evolution with optional   *)
(* hill-climbing (diff_ev), the legality enforcer (ensure_legal) and the   *)
(* univariate adapter (c_func).                                            *)
(*                                                                         *)
(* Numbers.  A parameter value (a C double) is held as an integer count of *)
(* steps of a grid, unit steps to 1.0: the model value v stands for the    *)
(* double v/unit.  The grid is part of the arguments: halves (unit = 2) in *)
(* the runs of diff_ev, halves or quarters (unit = 4) in the calls of      *)
(* ensure_legal on its own.  All inputs are dyadic, so the doubles of the  *)
(* program are exact and so is the model.                                  *)
(* Scores are integers.  Vectors are indexed from 0 as in the source; a    *)
(* candidate is a function on 0..nvars whose last element is the score.    *)
(*                                                                         *)
(* unifrand() is a nondeterministic choice.  glob_max, brentmax, paramcor  *)
(* and StocBias::collect are collaborators that are not part of the file:  *)
(* glob_max/brentmax are a nondeterministic sequence of c_func calls that  *)
(* ends with a nondeterministic abscissa x2, paramcor a nondeterministic   *)
(* status.  worstf, avgf, avg and the printf calls only feed the progress  *)
(* report and are left out; the locals of one hill-climb (ivar, ibase,     *)
(* success, old_value, local_base, local_ivar, ...) live inside its action.*)
(***************************************************************************)
EXTENDS Integers, Sequences, FiniteSets, Bags, TLC

VARIABLES
    cfg,              \* the arguments of diff_ev (fixed during a run)
    pc,               \* position in diff_ev
    pop1, pop2,       \* the two population buffers
    best, grand_best, \* best so far (vector plus score) and its score
    ind,              \* loop index (trial / individual)
    value,            \* local 'value'
    failures, n_evals, local_mintrades,
    ibest, n_tweaked,
    old_gen,          \* "pop1" or "pop2": which buffer old_gen points to
    new_gen,          \* "pop1" or "pop2": which buffer new_gen points to
    generation, improved, bad_generations,
    ret_code, params, \* result code and output vector
    collecting,       \* state of the StocBias collection toggle
    trials,           \* history: bag of the valid trial scores of the initialization
    call              \* one call of ensure_legal or of the crossover loop, made
                      \* on its own: its arguments and what it returned

vars == << cfg, pc, pop1, pop2, best, grand_best, ind, value, failures, n_evals,
           local_mintrades, ibest, n_tweaked, old_gen, new_gen, generation,
           improved, bad_generations, ret_code, params, collecting, trials, call >>

-----------------------------------------------------------------------------
(* Bounds of the model *)

\* Largest number of c_func calls made by one glob_max/brentmax search.
MaxCalls == 1

-----------------------------------------------------------------------------
(* Arithmetic on the grid *)

\* The double n (a whole number) on the grid of halves.
W(n) == 2 * n

\* The double n (a whole number) on the grid of the arguments c.
Whole(c, n) == c.unit * n

Abs(x) == IF x < 0 THEN -x ELSE x
Min(a, b) == IF a < b THEN a ELSE b
Max(a, b) == IF a > b THEN a ELSE b

\* Marks memory that has not been written (malloc'ed buffers, unset locals).
Undef == 0 - 999999

\* (int) v for a double v on the grid of c: truncation toward zero, a C int.
IntCast(c, v) == IF v >= 0 THEN v \div c.unit ELSE -((-v) \div c.unit)

\* unifrand() < p, for a probability p held in halves (0, 1/2 or 1).
Draw(p) == IF p <= 0 THEN {FALSE} ELSE IF p >= W(1) THEN {TRUE} ELSE BOOLEAN

Vars(c) == 0 .. (c.nvars - 1)
Dims(c) == 0 .. c.nvars
Slots(c) == 0 .. (c.popsize - 1)

UndefVec(c) == [i \in Dims(c) |-> Undef]
UndefPop(c) == [s \in Slots(c) |-> UndefVec(c)]

-----------------------------------------------------------------------------
(* The arguments of diff_ev *)

\* One set of arguments.  Bounds are in halves (unit = 2); pcross and pclimb are in
\* halves (0, 1/2, 1); mutate_dev is the fraction mut_num / mut_den.
Args(name, nints, overinit, mintrd, max_evals, max_bad_gen, mut_den, pcross, pclimb, lo, hi, criter) ==
    [ name |-> name, unit |-> 2, nvars |-> 2, nints |-> nints, popsize |-> 4,
      overinit |-> overinit, mintrd |-> mintrd, max_evals |-> max_evals,
      max_bad_gen |-> max_bad_gen, mut_num |-> 1, mut_den |-> mut_den,
      pcross |-> pcross, pclimb |-> pclimb,
      low_bounds |-> [i \in 0..1 |-> lo[i + 1]],
      high_bounds |-> [i \in 0..1 |-> hi[i + 1]],
      criter |-> criter ]

\* Runs whose integer dimensions have whole-number bounds.
Scenarios ==
    { \* one integer and one real dimension, hill-climbing
      Args("mixed", 1, 0, 1, 50, 0, 1, W(1), 1, <<W(0), W(0)>>, <<W(1), 1>>, "slope"),
      \* two real dimensions, hill-climbing
      Args("reals", 0, 0, 1, 50, 0, 1, W(1), 1, <<W(0), W(0)>>, <<1, 1>>, "slope"),
      \* two integer dimensions, mutate_dev = 1/2, a negative bound
      Args("allint", 2, 0, 1, 50, 0, 2, W(1), 1, <<W(-1), W(0)>>, <<W(1), W(0)>>, "ridge"),
      \* no hill-climbing, crossover probability 0, one bad generation allowed
      Args("plain", 1, 0, 1, 50, 1, 1, 0, 0, <<W(0), W(0)>>, <<W(1), 1>>, "peak"),
      \* no hill-climbing, crossover probability 1/2
      Args("cross", 1, 0, 1, 50, 0, 1, 1, 0, <<W(0), W(0)>>, <<W(1), 1>>, "peak"),
      \* over-initialization
      Args("over", 1, 2, 1, 50, 0, 1, W(1), 0, <<W(0), W(0)>>, <<W(2), W(0)>>, "slope"),
      \* a scoring function that needs mintrades <= 1 and x[0] = 0
      Args("trades", 1, 1, 2, 506, 0, 1, W(1), 0, <<W(0), W(0)>>, <<W(1), W(0)>>, "trades"),
      \* a scoring function that is the same everywhere, hill-climbing, two
      \* bad generations allowed
      Args("flat", 1, 0, 1, 50, 2, 1, W(1), 1, <<W(0), W(0)>>, <<W(0), W(0)>>, "flat"),
      \* no hill-climbing, one bad generation allowed, room to improve
      Args("patient", 1, 0, 1, 50, 1, 1, W(1), 0, <<W(0), W(0)>>, <<W(2), W(0)>>, "slope") }
    \cup
    { \* a scoring function that returns 0 on every call
      Args("zero", 1, 1, m, e, 0, 1, 1, 1, <<W(0), W(0)>>, <<W(0), W(1)>>, "zero") :
          m \in {1, 2, 5, 10}, e \in {0, 3, 1010} }

\* Runs in which an integer dimension has bounds that are not whole numbers.
FractionalScenarios ==
    { Args("fractional", 1, 0, 1, 50, 0, 1, W(1), 1, <<1, W(0)>>, <<3, W(0)>>, "ridge") }

\* Arguments for a call of ensure_legal or of the crossover loop made on its
\* own: three dimensions, the first two integer.
FuncArgs(name, pcross, mut_den, lo, hi) ==
    [ name |-> name, unit |-> 2, nvars |-> 3, nints |-> 2, popsize |-> 4,
      overinit |-> 0, mintrd |-> 1, max_evals |-> 50,
      max_bad_gen |-> 0, mut_num |-> 1, mut_den |-> mut_den,
      pcross |-> pcross, pclimb |-> 0,
      low_bounds |-> [i \in 0..2 |-> lo[i + 1]],
      high_bounds |-> [i \in 0..2 |-> hi[i + 1]],
      criter |-> "flat" ]

FuncScenarios ==
    { \* whole-number bounds on the integer dimensions; pcross 0 and 1/2
      FuncArgs("whole", 0, 1, <<W(0), W(-1), 0>>, <<W(1), W(1), 1>>),
      FuncArgs("whole", 1, 2, <<W(0), W(-1), 0>>, <<W(1), W(1), 1>>),
      \* an integer dimension with bounds 1/2 and 3/2
      FuncArgs("fractional", 0, 1, <<1, W(-1), 0>>, <<3, W(1), 1>>),
      \* a population of five, hill-climbing with probability 1/2
      [FuncArgs("five", 1, 1, <<W(0), W(0), 0>>, <<W(0), W(0), 0>>)
          EXCEPT !.popsize = 5, !.pclimb = 1],
      \* integer bounds 1..2 and -2..-1: a value one half outside the bound
      \* nearer to zero is rounded onto that bound
      FuncArgs("signed", 0, 1, <<W(1), W(-2), 0>>, <<W(2), W(-1), 1>>),
      \* the same integer bounds on the grid of quarters, the real dimension
      \* in 0..1/4: values a quarter, a half and three quarters outside
      [FuncArgs("quarters", 0, 1, <<4, -8, 0>>, <<8, -4, 1>>) EXCEPT !.unit = 4] }

\* Every integer dimension has whole-number bounds.
IntegralBounds(c) ==
    \A i \in Vars(c) : i < c.nints =>
        c.low_bounds[i] % c.unit = 0 /\ c.high_bounds[i] % c.unit = 0

-----------------------------------------------------------------------------
(* The scoring function (the caller's criter) *)

\* criter ( params , mintrades ): deterministic in its arguments.  The
\* scoring functions are those of the runs, whose parameters are in halves.
\*   "peak"   a valid score everywhere, maximal at (1, 1/2)
\*   "ridge"  a valid score everywhere, maximal at (0, 1)
\*   "slope"  a valid score everywhere that grows with x[0] alone
\*   "zero"   the sentinel 0 on every call
\*   "flat"   the same valid score everywhere
\*   "trades" valid only when mintrades <= 1 and x[0] = 0; otherwise a
\*            sentinel that is 0 or negative
Criter(c, x, m) ==
    CASE c.criter = "peak"   -> 50 - 5 * Abs(x[0] - W(1)) - 3 * Abs(x[1] - 1)
      [] c.criter = "ridge"  -> 50 - 4 * Abs(x[0]) - 3 * Abs(x[1] - W(1))
      [] c.criter = "slope"  -> 40 + 5 * x[0]
      [] c.criter = "zero"   -> 0
      [] c.criter = "flat"   -> 10
      [] c.criter = "trades" -> IF m <= 1 /\ x[0] = 0 THEN 10 + x[1] ELSE 0 - x[0]

\* The scoring function returns a sentinel (<= 0) whatever it is given.
AlwaysSentinel(c) == c.criter = "zero"

-----------------------------------------------------------------------------
(* ensure_legal *)

\* Mutant of RoundInt: the rounding is left out.
RoundIntOmitted(c, v) == v

\* The rounding of an integer dimension, lines 530-533: (int) (v + 0.5)
\* for v >= 0 and -(int) (0.5 - v) for v < 0.
RoundInt(c, v) ==
    LET half == c.unit \div 2
    IN  IF v >= 0 THEN Whole(c, IntCast(c, v + half))
        ELSE -Whole(c, IntCast(c, half - v))

\* Mutant of LegalDim: the second test compares with the upper bound again,
\* so every value below the upper bound is taken for one below the lower.
LegalDimLowTestsHigh(c, i, v) ==
    LET r  == IF i < c.nints THEN RoundInt(c, v) ELSE v
        hi == c.high_bounds[i]
    IN  [v |-> hi, pen |-> IF r > hi THEN r - hi ELSE hi - r]

\* Mutant of LegalDim: the test against the upper bound is left out.
LegalDimNoHigh(c, i, v) ==
    LET r  == IF i < c.nints THEN RoundInt(c, v) ELSE v
        lo == c.low_bounds[i]
    IN  [v |-> IF r < lo THEN lo ELSE r, pen |-> IF r < lo THEN lo - r ELSE 0]

\* One pass of the loop body for dimension i holding v: the legal value and
\* the overshoot added to the penalty (in steps; the penalty is 1.e10 times
\* the overshoot).
LegalDim(c, i, v) ==
    LET r  == IF i < c.nints THEN RoundInt(c, v) ELSE v
        hi == c.high_bounds[i]
        lo == c.low_bounds[i]
        h  == IF r > hi THEN hi ELSE r
        p1 == IF r > hi THEN r - hi ELSE 0
        l  == IF h < lo THEN lo ELSE h
        p2 == IF h < lo THEN lo - h ELSE 0
    IN  [v |-> l, pen |-> p1 + p2]

RECURSIVE PenaltySum(_, _, _)
PenaltySum(c, x, i) ==
    IF i >= c.nvars THEN 0 ELSE LegalDim(c, i, x[i]).pen + PenaltySum(c, x, i + 1)

\* ensure_legal ( nvars , nints , low_bounds , high_bounds , params ):
\* the vector after the call (the score element is not touched) and the
\* penalty returned.
ensure_legal(c, x) ==
    [ x |-> [i \in Dims(c) |-> IF i < c.nvars THEN LegalDim(c, i, x[i]).v ELSE x[i]],
      penalty |-> PenaltySum(c, x, 0) ]

\* c_func ( param ) on local_x = x, local_ivar = iv: the vector it leaves in
\* local_x and the score and penalty whose difference it returns.
c_func(c, x, iv, m, param) ==
    LET e == ensure_legal(c, [x EXCEPT ![iv] = param])
    IN  [x |-> e.x, score |-> Criter(c, e.x, m), penalty |-> e.penalty]

-----------------------------------------------------------------------------
(* Initial population: lines 96-195 *)

\* Consecutive sentinel scores after which the trade minimum is relaxed.
FailureLimit == 500

\* The values line 111 can give integer dimension i:
\* low + (int) (unifrand () * (high - low + 1.0)), limited to high.
IntInit(c, i) ==
    LET lo == c.low_bounds[i]
        hi == c.high_bounds[i]
        n  == (hi - lo + Whole(c, 1) + c.unit - 1) \div c.unit    \* number of values of the (int)
    IN  { Min(lo + Whole(c, t), hi) : t \in 0 .. (n - 1) }

\* The values line 117 can give real dimension i: low + unifrand () * (high - low).
RealInit(c, i) ==
    LET lo == c.low_bounds[i]
        hi == c.high_bounds[i]
    IN  IF hi = lo THEN {lo} ELSE lo .. (hi - 1)

InitValues(c, i) == IF i < c.nints THEN IntInit(c, i) ELSE RealInit(c, i)

\* The parameter vectors the random generation (lines 108-118) can produce.
RandomVectors(c) ==
    { x \in [Vars(c) -> UNION { InitValues(c, i) : i \in Vars(c) }] :
        \A i \in Vars(c) : x[i] \in InitValues(c, i) }

\* A parameter vector with its score appended.
WithScore(c, x, v) == [i \in Dims(c) |-> IF i < c.nvars THEN x[i] ELSE v]

\* Mutant of ReduceMintrades: nine tenths rounded to nearest, not truncated.
ReduceMintradesRounds(m) ==
    LET r == (m * 9 + 5) \div 10 IN IF r < 1 THEN 1 ELSE r

\* The relaxation of the trade minimum, lines 135-137.
ReduceMintrades(m) ==
    LET r == (m * 9) \div 10 IN IF r < 1 THEN 1 ELSE r

\* Mutant of WorstSlot: the comparison is reversed, the best slot is found.
RECURSIVE WorstSlotReversed(_, _, _, _)
WorstSlotReversed(c, p, i, m) ==
    IF i >= c.popsize THEN m
    ELSE WorstSlotReversed(c, p, i + 1,
                           IF i = 0 \/ p[i][c.nvars] > p[m][c.nvars] THEN i ELSE m)

\* The search of pop1 for the worst individual, lines 181-188: the subscript
\* minptr ends at (the first slot holding the smallest score).
RECURSIVE WorstSlot(_, _, _, _)
WorstSlot(c, p, i, m) ==
    IF i >= c.popsize THEN m
    ELSE WorstSlot(c, p, i + 1, IF i = 0 \/ p[i][c.nvars] < p[m][c.nvars] THEN i ELSE m)

\* No function has been called on its own.
NoCall == [op |-> "none"]

\* The arguments a run starts from.
Start(c) ==
    /\ cfg = c
    /\ pc = "start"
    /\ pop1 = UndefPop(c) /\ pop2 = UndefPop(c)
    /\ best = UndefVec(c) /\ grand_best = Undef
    /\ ind = Undef /\ value = Undef
    /\ failures = Undef /\ n_evals = Undef
    /\ local_mintrades = c.mintrd
    /\ ibest = Undef /\ n_tweaked = Undef
    /\ old_gen = "none" /\ new_gen = "none"
    /\ generation = Undef /\ improved = Undef /\ bad_generations = Undef
    /\ ret_code = 0
    /\ params = UndefVec(c)
    /\ collecting = FALSE
    /\ trials = EmptyBag
    /\ call = NoCall

Init == \E c \in Scenarios : Start(c)

InitAnyBounds == \E c \in Scenarios \cup FractionalScenarios : Start(c)

\* Lines 73-85: the three buffers are allocated, or diff_ev returns 1.
AllocateFails ==
    /\ pc = "start"
    /\ pc' = "done"
    /\ ret_code' = 1
    /\ UNCHANGED << call, cfg, pop1, pop2, best, grand_best, ind, value, failures,
                    n_evals, local_mintrades, ibest, n_tweaked, old_gen, new_gen,
                    generation, improved, bad_generations, params, collecting, trials >>

\* Lines 73-101: allocation succeeds; counters are reset, collection is
\* turned on and the trial loop is entered.
Allocate ==
    /\ pc = "start"
    /\ failures' = 0
    /\ n_evals' = 0
    /\ collecting' = TRUE
    /\ ind' = 0
    /\ pc' = IF 0 < cfg.popsize + cfg.overinit THEN "init" ELSE "init_done"
    /\ UNCHANGED << call, cfg, pop1, pop2, best, grand_best, value, local_mintrades,
                    ibest, n_tweaked, old_gen, new_gen, generation, improved,
                    bad_generations, ret_code, params, trials >>

\* Mutant of SafetyEscape: the escape only leaves the trial loop (a break).
SafetyEscapeBreaks == "init_done"

\* Line 131: where the safety escape goes (goto FINISHED).
SafetyEscape == "finished"

\* Mutant of NewBest: a score only replaces the best when it is more than
\* five above it.
NewBestByMargin(v, g) == v > g + 5

\* Lines 150, 304 and 440: the score v replaces the best score g.
NewBest(v, g) == v > g

\* One pass of the trial loop, lines 101-195, for the random vector x.
TrialPass(x) ==
    LET c      == cfg
        nv     == c.nvars
        v      == Criter(c, x, local_mintrades)
        cand   == WithScore(c, x, v)
        inpop  == ind < c.popsize
        p1a    == IF inpop THEN [pop1 EXCEPT ![ind] = cand] ELSE pop1
        p2a    == IF inpop THEN pop2 ELSE [pop2 EXCEPT ![0] = cand]
        gb0    == IF ind = 0 THEN v ELSE grand_best          \* line 125
        best0  == IF ind = 0 THEN p1a[0] ELSE best           \* line 126
    IN
    /\ value' = v
    /\ n_evals' = n_evals + 1
    /\ pop2' = p2a
    /\ IF v <= 0
       THEN \* a worthless individual, lines 129-140
            /\ pop1' = p1a
            /\ grand_best' = gb0
            /\ best' = best0
            /\ trials' = trials
            /\ IF n_evals + 1 > c.max_evals
               THEN /\ pc' = SafetyEscape
                    /\ UNCHANGED << ind, failures, local_mintrades >>
               ELSE /\ pc' = "init"
                    /\ ind' = ind            \* --ind, then the loop's ind++
                    /\ IF failures + 1 >= FailureLimit
                       THEN /\ failures' = 0
                            /\ local_mintrades' = ReduceMintrades(local_mintrades)
                       ELSE /\ failures' = failures + 1
                            /\ local_mintrades' = local_mintrades
       ELSE \* a valid individual, lines 141-193
            LET newbest == NewBest(v, gb0)
                m       == WorstSlot(c, p1a, 0, 0)
            IN
            /\ failures' = 0
            /\ local_mintrades' = local_mintrades
            /\ grand_best' = IF newbest THEN v ELSE gb0
            /\ best' = IF newbest THEN cand ELSE best0
            /\ pop1' = IF ~inpop /\ v > p1a[m][nv] THEN [p1a EXCEPT ![m] = cand] ELSE p1a
            /\ trials' = trials (+) SetToBag({v})
            /\ ind' = ind + 1
            /\ pc' = IF ind + 1 < c.popsize + c.overinit THEN "init" ELSE "init_done"

InitTrial ==
    /\ pc = "init"
    /\ \E x \in RandomVectors(cfg) : TrialPass(x)
    /\ UNCHANGED << call, cfg, ibest, n_tweaked, old_gen, new_gen, generation, improved,
                    bad_generations, ret_code, params, collecting >>

-----------------------------------------------------------------------------
(* After the initial population: lines 197-229 *)

\* The search for the subscript of the best of pop1, lines 206-214.
RECURSIVE BestSlot(_, _, _, _)
BestSlot(c, p, i, b) ==
    IF i >= c.popsize THEN b
    ELSE BestSlot(c, p, i + 1, IF p[i][c.nvars] > p[b][c.nvars] THEN i ELSE b)

FindBest ==
    /\ pc = "init_done"
    /\ collecting' = FALSE
    /\ ibest' = BestSlot(cfg, pop1, 1, 0)
    /\ n_tweaked' = 0
    /\ value' = pop1[BestSlot(cfg, pop1, 1, 0)][cfg.nvars]
    /\ ind' = cfg.popsize
    /\ old_gen' = "pop1"
    /\ new_gen' = "pop2"
    /\ bad_generations' = 0
    /\ generation' = 1
    /\ trials' = EmptyBag
    /\ pc' = "gen_start"
    /\ UNCHANGED << call, cfg, pop1, pop2, best, grand_best, failures, n_evals,
                    local_mintrades, improved, ret_code, params >>

-----------------------------------------------------------------------------
(* One generation: lines 231-485 *)

\* The buffers old_gen and new_gen point to.
OldGen == IF old_gen = "pop1" THEN pop1 ELSE pop2
NewGen == IF new_gen = "pop1" THEN pop1 ELSE pop2

\* Lines 233-237: the top of the generation loop.
GenStart ==
    /\ pc = "gen_start"
    /\ improved' = 0
    /\ ind' = 0
    /\ pc' = "child"
    /\ UNCHANGED << call, cfg, pop1, pop2, best, grand_best, value, failures,
                    n_evals, local_mintrades, ibest, n_tweaked, old_gen, new_gen,
                    generation, bad_generations, ret_code, params, collecting,
                    trials >>

\* mutate_dev * d, exact for the arguments of the model.
MulDev(c, d) == (c.mut_num * d) \div c.mut_den

\* Mutant of CrossLoop: no parameter is forced from the mutation vector.
RECURSIVE CrossLoopNoForce(_, _, _, _, _, _, _, _, _, _)
CrossLoopNoForce(c, parent1, parent2, diff1, diff2, draws, i, j, used, dest) ==
    IF i < 0 THEN dest
    ELSE LET mutate == draws[i]
             d      == IF mutate
                       THEN [dest EXCEPT ![j] = parent2[j] + MulDev(c, diff1[j] - diff2[j])]
                       ELSE [dest EXCEPT ![j] = parent1[j]]
         IN  CrossLoopNoForce(c, parent1, parent2, diff1, diff2, draws, i - 1,
                              (j + 1) % c.nvars, used \/ mutate, d)

\* The crossover loop, lines 274-282, from loop counter i with vector
\* subscript j; draws[i] is the outcome of unifrand() < pcross at counter i.
RECURSIVE CrossLoop(_, _, _, _, _, _, _, _, _, _)
CrossLoop(c, parent1, parent2, diff1, diff2, draws, i, j, used, dest) ==
    IF i < 0 THEN dest
    ELSE LET mutate == (i = 0 /\ ~used) \/ draws[i]
             d      == IF mutate
                       THEN [dest EXCEPT ![j] = parent2[j] + MulDev(c, diff1[j] - diff2[j])]
                       ELSE [dest EXCEPT ![j] = parent1[j]]
         IN  CrossLoop(c, parent1, parent2, diff1, diff2, draws, i - 1,
                       (j + 1) % c.nvars, used \/ mutate, d)

\* Mutant of Pick: a draw is only compared with popsize and with ind.
PickIgnoresTaken(c, n, taken) ==
    { x \in 0..c.popsize : ~(x >= c.popsize \/ x = n) }

\* One of the loops of lines 246-253 for individual n, taken being the
\* subscripts the earlier loops ended on: the subscripts it can end on.  A
\* draw (int) (unifrand() * popsize) is one of 0..popsize, and is drawn again
\* while it is >= popsize, equal to ind or equal to one already taken.
Pick(c, n, taken) ==
    { x \in 0..c.popsize : ~(x >= c.popsize \/ x = n \/ x \in taken) }

\* Lines 255-257: the members of the old generation parent2, diff1 and diff2
\* point to, as subscripts, from the variables v when the lines run.
Pointers(v) == [parent2 |-> v.i, diff1 |-> v.j, diff2 |-> v.k]

\* Lines 269-282 on the variables i and j: line 269 sets j to the starting
\* parameter, and the loop counts i down from nvars - 1 and rotates j.
RECURSIVE CrossVarsLoop(_, _)
CrossVarsLoop(c, v) ==
    IF v.i < 0 THEN v
    ELSE CrossVarsLoop(c, [v EXCEPT !.i = v.i - 1, !.j = (v.j + 1) % c.nvars])

CrossVars(c, v, start) ==
    CrossVarsLoop(c, [v EXCEPT !.j = start, !.i = c.nvars - 1])

\* Mutant of ChildBetter: a child that ties with parent1 is kept.
ChildKeepsTies(v, p) == v >= p

\* Line 302: the child, of score v, is better than parent1, of score p.
ChildBetter(v, p) == v > p

\* Lines 239-316 for individual ind: the parents at subscripts i, j, k, the
\* starting parameter start, the crossover draws.
ChildPass(i, j, k, start, draws) ==
    LET c       == cfg
        nv      == c.nvars
        parent1 == OldGen[ind]
        raw     == CrossLoop(c, parent1, OldGen[i], OldGen[j], OldGen[k],
                             draws, nv - 1, start, FALSE, NewGen[ind])
        child   == ensure_legal(c, raw).x
        v       == Criter(c, child, local_mintrades)
        keep    == ChildBetter(v, parent1[nv])
        dest    == IF keep THEN [child EXCEPT ![nv] = v] ELSE parent1
        newbest == keep /\ NewBest(v, grand_best)
    IN
    /\ IF new_gen = "pop1"
       THEN pop1' = [pop1 EXCEPT ![ind] = dest] /\ pop2' = pop2
       ELSE pop2' = [pop2 EXCEPT ![ind] = dest] /\ pop1' = pop1
    /\ value' = IF keep THEN v ELSE parent1[nv]
    /\ grand_best' = IF newbest THEN v ELSE grand_best
    /\ best' = IF newbest THEN dest ELSE best
    /\ ibest' = IF newbest THEN ind ELSE ibest
    /\ n_tweaked' = IF newbest THEN 0 ELSE n_tweaked
    /\ improved' = IF newbest THEN 1 ELSE improved

Child ==
    /\ pc = "child"
    /\ \E i \in Pick(cfg, ind, {}) :
       \E j \in Pick(cfg, ind, {i}) :
       \E k \in Pick(cfg, ind, {i, j}) :
          LET ptr == Pointers([i |-> i, j |-> j, k |-> k])
          IN  \E start \in Vars(cfg) :
              \E draws \in [Vars(cfg) -> Draw(cfg.pcross)] :
                 ChildPass(ptr.parent2, ptr.diff1, ptr.diff2, start, draws)
    /\ pc' = "climb"
    /\ UNCHANGED << call, cfg, ind, failures, n_evals, local_mintrades, old_gen, new_gen, generation, bad_generations, ret_code, params, collecting,
                    trials >>

-----------------------------------------------------------------------------
(* Hill-climbing: lines 336-448 *)

\* The test of lines 336-337 can succeed / can fail.
CanClimb ==
    /\ cfg.pclimb > 0
    /\ (ind = ibest /\ n_tweaked < cfg.nvars) \/ TRUE \in Draw(cfg.pclimb)

CanSkip ==
    \/ ~(cfg.pclimb > 0)
    \/ ~(ind = ibest /\ n_tweaked < cfg.nvars) /\ FALSE \in Draw(cfg.pclimb)

\* Lines 338-346: the parameters k that may be chosen.
ClimbVars == IF ind = ibest THEN {generation % cfg.nvars} ELSE Vars(cfg)

\* Mutant of Tweaked: the best is only counted while the count is below nvars.
TweakedWhileBelowNvars ==
    IF ind = ibest /\ n_tweaked < cfg.nvars THEN n_tweaked + 1 ELSE n_tweaked

\* Lines 338-341: the tweak count after the choice.
Tweaked == IF ind = ibest THEN n_tweaked + 1 ELSE n_tweaked

\* Mutant of SetDest: dest is written to slot ind of the old generation.
SetDestInOldGen(dest) ==
    IF old_gen = "pop1"
    THEN pop1' = [pop1 EXCEPT ![ind] = dest] /\ pop2' = pop2
    ELSE pop2' = [pop2 EXCEPT ![ind] = dest] /\ pop1' = pop1

\* Line 240 (dest_ptr = new_gen + ind * dim): the buffer new_gen points to
\* with dest written to slot ind.
SetDest(dest) ==
    IF new_gen = "pop1"
    THEN pop1' = [pop1 EXCEPT ![ind] = dest] /\ pop2' = pop2
    ELSE pop2' = [pop2 EXCEPT ![ind] = dest] /\ pop1' = pop1

\* The upward loop of lines 357-371 on parameter k.  st holds dest_ptr,
\* value, ibase, ivar and success.
RECURSIVE ClimbUp(_, _, _, _, _)
ClimbUp(c, m, k, ihigh, st) ==
    LET iv == st.ivar + 1
        d  == [st.dest EXCEPT ![k] = Whole(c, iv)]
        t  == Criter(c, d, m)
    IN  IF iv > ihigh THEN [st EXCEPT !.ivar = iv]
        ELSE IF t > st.value
        THEN ClimbUp(c, m, k, ihigh,
                     [dest |-> d, value |-> t, ibase |-> iv, ivar |-> iv, success |-> 1])
        ELSE [st EXCEPT !.dest = [d EXCEPT ![k] = Whole(c, st.ibase)], !.ivar = iv]

\* The downward loop of lines 375-389.
RECURSIVE ClimbDown(_, _, _, _, _)
ClimbDown(c, m, k, ilow, st) ==
    LET iv == st.ivar - 1
        d  == [st.dest EXCEPT ![k] = Whole(c, iv)]
        t  == Criter(c, d, m)
    IN  IF iv < ilow THEN [st EXCEPT !.ivar = iv]
        ELSE IF t > st.value
        THEN ClimbDown(c, m, k, ilow,
                       [dest |-> d, value |-> t, ibase |-> iv, ivar |-> iv, success |-> 1])
        ELSE [st EXCEPT !.dest = [d EXCEPT ![k] = Whole(c, st.ibase)], !.ivar = iv]

\* Lines 350-397: the integer hill-climb of parameter k of dest, whose value
\* is val.
IntegerClimb(c, m, k, dest, val) ==
    LET ibase == IntCast(c, dest[k])
        ilow  == IntCast(c, c.low_bounds[k])
        ihigh == IntCast(c, c.high_bounds[k])
        up    == ClimbUp(c, m, k, ihigh,
                         [dest |-> dest, value |-> val, ibase |-> ibase,
                          ivar |-> ibase, success |-> 0])
    IN  IF up.success = 0
        THEN ClimbDown(c, m, k, ilow, [up EXCEPT !.ivar = up.ibase])
        ELSE up

IntClimb ==
    /\ pc = "climb"
    /\ CanClimb
    /\ \E k \in ClimbVars :
          /\ k < cfg.nints
          /\ LET r == IntegerClimb(cfg, local_mintrades, k, NewGen[ind], value)
             IN  /\ SetDest(r.dest)
                 /\ value' = r.value
                 /\ pc' = IF r.success = 1 THEN "int_success" ELSE "int_no_success"
    /\ n_tweaked' = Tweaked
    /\ UNCHANGED << call, cfg, best, grand_best, ind, failures, n_evals,
                    local_mintrades, ibest, old_gen, new_gen, generation,
                    improved, bad_generations, ret_code, params, collecting, trials >>

\* The abscissas glob_max and brentmax may try or return for parameter k.
Probes(c, k) == (c.low_bounds[k] - 1) .. (c.high_bounds[k] + 1)

\* The sequences of c_func arguments of one glob_max/brentmax search.
CallSeqs(c, k) == UNION { [1 .. n -> Probes(c, k)] : n \in 0 .. MaxCalls }

\* local_x after the c_func calls calls[n], calls[n+1], ...
RECURSIVE AfterCalls(_, _, _, _, _, _)
AfterCalls(c, x, iv, m, calls, n) ==
    IF n > Len(calls) THEN x
    ELSE AfterCalls(c, c_func(c, x, iv, m, calls[n]).x, iv, m, calls, n + 1)

\* Mutant of RealAccept: a rejected step is not undone.
RealAcceptNoUndo(c, m, iv, x, x2, base, oldv) ==
    LET d == ensure_legal(c, [x EXCEPT ![iv] = x2]).x
        v == Criter(c, d, m)
    IN  IF v > oldv
        THEN [dest |-> [d EXCEPT ![c.nvars] = v], value |-> v, ok |-> TRUE]
        ELSE [dest |-> d, value |-> oldv, ok |-> FALSE]

\* Lines 426-439: x2 is stored, the vector made legal and scored, and the
\* step accepted or undone.  x is dest_ptr after the search.
RealAccept(c, m, iv, x, x2, base, oldv) ==
    LET d == ensure_legal(c, [x EXCEPT ![iv] = x2]).x
        v == Criter(c, d, m)
    IN  IF v > oldv
        THEN [dest |-> [d EXCEPT ![c.nvars] = v], value |-> v, ok |-> TRUE]
        ELSE [dest |-> [d EXCEPT ![iv] = base], value |-> oldv, ok |-> FALSE]

\* Lines 401-447: the real hill-climb of parameter k.
RealClimb ==
    /\ pc = "climb"
    /\ CanClimb
    /\ \E k \in ClimbVars :
          /\ k >= cfg.nints
          /\ \E calls \in CallSeqs(cfg, k), x2 \in Probes(cfg, k) :
                LET x == AfterCalls(cfg, NewGen[ind], k, local_mintrades, calls, 1)
                    r == RealAccept(cfg, local_mintrades, k, x, x2, NewGen[ind][k], value)
                    newbest == NewBest(r.value, grand_best)
                IN  /\ SetDest(r.dest)
                    /\ value' = r.value
                    /\ grand_best' = IF newbest THEN r.value ELSE grand_best
                    /\ best' = IF newbest THEN r.dest ELSE best
                    /\ ibest' = IF newbest THEN ind ELSE ibest
                    /\ n_tweaked' = IF newbest THEN 0 ELSE Tweaked
                    /\ improved' = IF newbest THEN 1 ELSE improved
                    /\ pc' = IF r.ok THEN "real_success" ELSE "real_no_success"
    /\ UNCHANGED << call, cfg, ind, failures, n_evals, local_mintrades, old_gen, new_gen, generation, bad_generations, ret_code,
                    params, collecting, trials >>

\* The test of lines 336-337 fails: no hill-climbing for this individual.
NoClimb ==
    /\ pc = "climb"
    /\ CanSkip
    /\ pc' = "no_climb"
    /\ UNCHANGED << call, cfg, pop1, pop2, best, grand_best, ind, value, failures,
                    n_evals, local_mintrades, ibest, n_tweaked, old_gen, new_gen,
                    generation, improved, bad_generations, ret_code, params, collecting,
                    trials >>

\* The positions at which the hill-climbing block has been left: after the
\* report of lines 392-395 or 431-438 (and the update of lines 440-446), or
\* with the test of line 336 failed.
ClimbDone == {"int_success", "int_no_success", "real_success", "real_no_success"}
StepDone == ClimbDone \cup {"no_climb"}

\* Lines 450-455: the end of the pass for individual ind.
ChildEnd ==
    /\ pc \in StepDone
    /\ ind' = ind + 1
    /\ pc' = IF ind + 1 < cfg.popsize THEN "child" ELSE "gen_end"
    /\ UNCHANGED << call, cfg, pop1, pop2, best, grand_best, value, failures,
                    n_evals, local_mintrades, ibest, n_tweaked, old_gen, new_gen,
                    generation, improved, bad_generations, ret_code, params, collecting,
                    trials >>

-----------------------------------------------------------------------------
(* End of a generation and return: lines 468-506 *)

\* Mutant of BadAfter: an improved generation does not reset the count.
BadAfterNoReset(imp, bad) == IF imp = 0 THEN bad + 1 ELSE bad

\* Lines 468-474: the count of bad generations after a generation whose
\* improved flag is imp.
BadAfter(imp, bad) == IF imp = 0 THEN bad + 1 ELSE 0

\* Mutant of Swapped: the roles of the buffers are left as they are.
NotSwapped(g) == g

\* Lines 476-483: the buffer old_gen points to after the swap, when it
\* pointed to g.
Swapped(g) == IF g = "pop1" THEN "pop2" ELSE "pop1"

\* Lines 478 and 482: the buffer new_gen points to after the swap, when
\* old_gen pointed to g before it.
SwappedNew(g) == IF g = "pop1" THEN "pop1" ELSE "pop2"

\* Line 491: the population handed to paramcor (new_gen).
ParamCorPopulation == NewGen

\* Lines 468-485: count bad generations, leave the loop or swap the buffers.
EndGeneration ==
    /\ pc = "gen_end"
    /\ LET bad  == BadAfter(improved, bad_generations)
           quit == improved = 0 /\ bad > cfg.max_bad_gen
       IN  /\ bad_generations' = bad
           /\ IF quit
              THEN /\ pc' = "paramcor"
                   /\ UNCHANGED << old_gen, new_gen, generation >>
              ELSE /\ old_gen' = Swapped(old_gen)
                   /\ new_gen' = SwappedNew(old_gen)
                   /\ generation' = generation + 1
                   /\ pc' = "gen_start"
    /\ UNCHANGED << call, cfg, pop1, pop2, best, grand_best, ind, value, failures,
                    n_evals, local_mintrades, ibest, n_tweaked,
                    improved, ret_code, params, collecting, trials >>

\* Mutant of ParamCorCode: a failed report gives the code of a failed
\* allocation.
ParamCorCodeOfAllocation(failed, code) == IF failed THEN 1 ELSE code

\* Lines 491-492: ret_code after paramcor, which failed (returned nonzero)
\* or not.
ParamCorCode(failed, code) == IF failed THEN -1 ELSE code

\* Lines 491-492: the correlation report succeeds or fails.
ParamCor ==
    /\ pc = "paramcor"
    /\ \E failed \in BOOLEAN : ret_code' = ParamCorCode(failed, ret_code)
    /\ pc' = "finished"
    /\ UNCHANGED << call, cfg, pop1, pop2, best, grand_best, ind, value, failures,
                    n_evals, local_mintrades, ibest, n_tweaked, old_gen, new_gen,
                    generation, improved, bad_generations, params, collecting, trials >>

\* Lines 498-506: the best is copied to params and diff_ev returns.
Finished ==
    /\ pc = "finished"
    /\ params' = best
    /\ pc' = "done"
    /\ UNCHANGED << call, cfg, pop1, pop2, best, grand_best, ind, value, failures,
                    n_evals, local_mintrades, ibest, n_tweaked, old_gen, new_gen,
                    generation, improved, bad_generations, ret_code, collecting, trials >>

-----------------------------------------------------------------------------
(* ensure_legal and the crossover loop called on their own *)

\* The vectors ensure_legal is given: every parameter from below its lower
\* bound to above its upper bound, whole or not.
LegalInputs(c) ==
    { x \in [Vars(c) -> UNION { (c.low_bounds[i] - 3) .. (c.high_bounds[i] + 3) : i \in Vars(c) }] :
        \A i \in Vars(c) : x[i] \in (c.low_bounds[i] - 3) .. (c.high_bounds[i] + 3) }

\* ensure_legal ( nvars , nints , low_bounds , high_bounds , params ) on the
\* vector x, and again on the vector the first call left.
CallEnsureLegal ==
    /\ call = NoCall
    /\ \E x \in LegalInputs(cfg) :
          LET first  == ensure_legal(cfg, WithScore(cfg, x, Undef))
              second == ensure_legal(cfg, first.x)
          IN  call' = [ op |-> "ensure_legal", x |-> x,
                        out |-> first.x, penalty |-> first.penalty,
                        out2 |-> second.x, penalty2 |-> second.penalty ]
    /\ UNCHANGED << cfg, pc, pop1, pop2, best, grand_best, ind, value, failures,
                    n_evals, local_mintrades, ibest, n_tweaked, old_gen, new_gen,
                    generation, improved, bad_generations, ret_code, params,
                    collecting, trials >>

\* The vectors of the old generation the crossover loop reads.
CrossInputs(c) == [Vars(c) -> {Whole(c, 0), Whole(c, 1)}]

\* Lines 269-282 on parent1, parent2, diff1 and diff2, from the starting
\* parameter start and with the outcomes draws of unifrand() < pcross.
CallCrossLoop ==
    /\ call = NoCall
    /\ \E parent1, parent2, diff1 \in CrossInputs(cfg) :
       \E diff2 \in { [i \in Vars(cfg) |-> Whole(cfg, 0)], [i \in Vars(cfg) |-> Whole(cfg, i % 2)] } :
       \E start \in Vars(cfg) :
       \E draws \in [Vars(cfg) -> Draw(cfg.pcross)] :
          call' = [ op |-> "crossover", parent1 |-> parent1, parent2 |-> parent2,
                    diff1 |-> diff1, diff2 |-> diff2, start |-> start,
                    child |-> CrossLoop(cfg, parent1, parent2, diff1, diff2, draws,
                                        cfg.nvars - 1, start, FALSE, UndefVec(cfg)) ]
    /\ UNCHANGED << cfg, pc, pop1, pop2, best, grand_best, ind, value, failures,
                    n_evals, local_mintrades, ibest, n_tweaked, old_gen, new_gen,
                    generation, improved, bad_generations, ret_code, params,
                    collecting, trials >>

\* Lines 336-346 on the variable k for individual n, ib being ibest, tw
\* n_tweaked and gen the generation: the values k can hold at line 347.  The
\* block is entered only with pclimb > 0, and then when n is the best and tw
\* is below nvars, or when unifrand() < pclimb; entered, k becomes gen mod
\* nvars for the best and a random parameter for any other individual; not
\* entered, k is left as it was.
ClimbChoice(c, n, ib, tw, gen, k) ==
    LET forced  == n = ib /\ tw < c.nvars
        entered == c.pclimb > 0 /\ (forced \/ TRUE \in Draw(c.pclimb))
        skipped == ~(c.pclimb > 0) \/ (~forced /\ FALSE \in Draw(c.pclimb))
    IN  (IF entered THEN (IF n = ib THEN {gen % c.nvars} ELSE Vars(c)) ELSE {})
        \cup (IF skipped THEN {k} ELSE {})

\* Lines 246-282 and 336-346 on the variables i, j and k for individual n:
\* the three loops, the pointers taken from them, then the starting
\* parameter and the crossover loop, which reuse j and i, and the choice of
\* the parameter to hill-climb, which reuses k.
CallParents ==
    /\ call = NoCall
    /\ \E n \in Slots(cfg) :
       \E i \in Pick(cfg, n, {}) :
       \E j \in Pick(cfg, n, {i}) :
       \E k \in Pick(cfg, n, {i, j}) :
       \E start \in Vars(cfg) :
       \E ib \in Slots(cfg) :
       \E tw \in {0, cfg.nvars} :
       \E gen \in 1 .. cfg.nvars :
          LET picked == [i |-> i, j |-> j, k |-> k]
              ptr    == Pointers(picked)
              cross  == CrossVars(cfg, picked, start)
          IN  \E climb \in ClimbChoice(cfg, n, ib, tw, gen, cross.k) :
                 call' = [ op |-> "parents", ind |-> n, picked |-> picked,
                           parent2 |-> ptr.parent2, diff1 |-> ptr.diff1,
                           diff2 |-> ptr.diff2, start |-> start,
                           ibest |-> ib, n_tweaked |-> tw, generation |-> gen,
                           i |-> cross.i, j |-> cross.j, k |-> climb ]
    /\ UNCHANGED << cfg, pc, pop1, pop2, best, grand_best, ind, value, failures,
                    n_evals, local_mintrades, ibest, n_tweaked, old_gen, new_gen,
                    generation, improved, bad_generations, ret_code, params,
                    collecting, trials >>

-----------------------------------------------------------------------------
(* Specifications *)

Next ==
    \/ AllocateFails
    \/ Allocate
    \/ InitTrial
    \/ FindBest
    \/ GenStart
    \/ Child
    \/ IntClimb
    \/ RealClimb
    \/ NoClimb
    \/ ChildEnd
    \/ EndGeneration
    \/ ParamCor
    \/ Finished

\* Runs on arguments whose integer dimensions have whole-number bounds.
Spec == Init /\ [][Next]_vars

\* Runs on arguments with any bounds low <= high.
SpecAnyBounds == InitAnyBounds /\ [][Next]_vars

\* The steps outside the generation loop: the allocation, the trials of the
\* initial population and the return.
InitSteps == AllocateFails \/ Allocate \/ InitTrial \/ Finished

\* diff_ev is sequential code: outside the generation loop, which has no
\* bound of its own, it always takes its next step.
FairSpec == Init /\ [][Next]_vars /\ WF_vars(InitSteps)

\* ensure_legal, the crossover loop and the choice of the parents, each
\* called on its own on arguments drawn from bounded sets.
FuncInit == \E c \in FuncScenarios : Start(c)

FuncNext == CallEnsureLegal \/ CallCrossLoop \/ CallParents

FuncSpec == FuncInit /\ [][FuncNext]_vars

-----------------------------------------------------------------------------
(* Vocabulary of the properties *)

\* The positions inside the generation loop and the report that follows it.
GenPCs == {"gen_start", "child", "climb", "gen_end", "paramcor"} \cup StepDone

\* The candidates held in the two population buffers.
Members ==
    { pop1[s] : s \in { t \in Slots(cfg) : pop1[t][cfg.nvars] # Undef } } \cup
    { pop2[s] : s \in { t \in Slots(cfg) : pop2[t][cfg.nvars] # Undef } }

InBounds(x) ==
    \A i \in Vars(cfg) : cfg.low_bounds[i] <= x[i] /\ x[i] <= cfg.high_bounds[i]

WholeInts(x) == \A i \in Vars(cfg) : i < cfg.nints => x[i] % cfg.unit = 0

\* The bag of the scores stored in population p.
RECURSIVE ScoreBag(_, _)
ScoreBag(p, i) ==
    IF i >= cfg.popsize THEN EmptyBag
    ELSE SetToBag({p[i][cfg.nvars]}) (+) ScoreBag(p, i + 1)

-----------------------------------------------------------------------------
(* Properties *)

\* C1: at the end of every per-individual step (selection, then an optional
\* hill-climb), the score stored in the destination slot is the score the
\* scoring function gives the parameters stored in that slot.
C1_StoredScoreIsCurrent ==
    pc \in StepDone =>
        NewGen[ind][cfg.nvars] = Criter(cfg, NewGen[ind], local_mintrades)

\* C2: the score of BestSoFar never decreases from one state to the next,
\* from the first evaluated trial on.
C2_BestNeverDecreases ==
    [][grand_best # Undef =>
          /\ grand_best' >= grand_best
          /\ best'[cfg.nvars] >= best[cfg.nvars]]_vars

\* C3: a hill-climb step (integer or real) that leaves the candidate with a
\* score above the all-time best overwrites BestSoFar with the candidate,
\* resets n_tweaked and flags the generation as improved.
C3_ClimbUpdatesBest ==
    [][(pc = "climb" /\ pc' \in ClimbDone /\ value' > grand_best) =>
          /\ grand_best' = value'
          /\ best' = NewGen'[ind]
          /\ n_tweaked' = 0
          /\ improved' = 1]_vars

\* C4: in every generation, every slot of the new generation whose step is
\* finished (selection, also after any hill-climb) stores a score greater
\* than or equal to the score stored in the same slot of the old generation;
\* right after selection the slot holds either the child, with a score
\* strictly greater than the parent's, or an exact copy of the parent.
C4_SelectionMonotone ==
    /\ pc \in GenPCs \ {"gen_start", "paramcor"} =>
          \A s \in Slots(cfg) :
             (s < ind \/ (s = ind /\ pc \in StepDone \cup {"climb"})) =>
                NewGen[s][cfg.nvars] >= OldGen[s][cfg.nvars]
    /\ pc = "climb" =>
          \/ NewGen[ind] = OldGen[ind] /\ value = OldGen[ind][cfg.nvars]
          \/ /\ NewGen[ind][cfg.nvars] > OldGen[ind][cfg.nvars]
             /\ NewGen[ind][cfg.nvars] = value

\* C4 witness: selection has kept a child in place of its parent.
C4_Witness ==
    /\ pc = "climb"
    /\ NewGen[ind] # OldGen[ind]
    /\ NewGen[ind][cfg.nvars] > OldGen[ind][cfg.nvars]

\* C5 as stated: for any bounds low <= high, every parameter of every
\* candidate held in a population buffer lies within its bounds.
C5_MembersInBounds == \A x \in Members : InBounds(x)

\* C5 amended: the same, for arguments whose integer dimensions have
\* whole-number bounds.
C5_MembersInBoundsWholeIntBounds ==
    IntegralBounds(cfg) => \A x \in Members : InBounds(x)

\* C5 witness: an integer hill-climb has walked a parameter up to its upper
\* bound and stopped there.
C5_Witness ==
    /\ IntegralBounds(cfg)
    /\ pc = "int_success"
    /\ \E i \in Vars(cfg) :
          /\ i < cfg.nints
          /\ NewGen[ind][i] = cfg.high_bounds[i]
          /\ OldGen[ind][i] < cfg.high_bounds[i]

\* C6 as stated: for any bounds, the first nints parameters of every
\* candidate held in a population buffer are whole numbers.
C6_IntegersExact == \A x \in Members : WholeInts(x)

\* C6 amended: the same, for arguments whose integer dimensions have
\* whole-number bounds.
C6_IntegersExactWholeIntBounds ==
    IntegralBounds(cfg) => \A x \in Members : WholeInts(x)

\* C6 witness: with mutate_dev = 1/2 a child built from parents whose integer
\* parameters differ by an odd amount has been made legal and kept.
C6_Witness ==
    /\ IntegralBounds(cfg)
    /\ cfg.mut_den = 2
    /\ pc = "climb"
    /\ NewGen[ind] # OldGen[ind]
    /\ \E s, t \in Slots(cfg) : (OldGen[s][0] - OldGen[t][0]) % 4 = 2

\* C7: when the scoring function returns a score <= 0 on every call, diff_ev
\* never enters the generation loop and ends, through the safety escape,
\* with more than max_evals evaluations made.
C7_SentinelRunEnds ==
    /\ [](AlwaysSentinel(cfg) => pc \notin GenPCs \cup {"init_done"})
    /\ (AlwaysSentinel(cfg) /\ pc = "init") ~>
          (pc = "done" /\ n_evals > cfg.max_evals /\ ret_code = 0)

\* C7 witness: a run on an always-sentinel scoring function has returned
\* after max_evals + 1 evaluations, having relaxed the trade minimum on the way.
C7_Witness ==
    /\ AlwaysSentinel(cfg)
    /\ pc = "done"
    /\ n_evals = cfg.max_evals + 1
    /\ local_mintrades < cfg.mintrd

\* C8 as stated: when the failure count reaches 500 the trade minimum m
\* becomes max(1, round(m * 0.9)) and the count is reset; a valid trial
\* resets the count and leaves the minimum alone.
C8_RelaxRounds ==
    [][(pc = "init" /\ pc' \in {"init", "init_done"}) =>
          IF value' <= 0
          THEN IF failures + 1 >= 500
               THEN /\ failures' = 0
                    /\ local_mintrades' = Max(1, (local_mintrades * 9 + 5) \div 10)
               ELSE /\ failures' = failures + 1
                    /\ local_mintrades' = local_mintrades
          ELSE /\ failures' = 0
               /\ local_mintrades' = local_mintrades]_vars

\* C8 amended: when the failure count reaches 500 the trade minimum m
\* becomes max(1, floor(m * 9 / 10)) and the count is reset; a valid trial
\* resets the count and leaves the minimum alone.
C8_RelaxTruncates ==
    [][(pc = "init" /\ pc' \in {"init", "init_done"}) =>
          IF value' <= 0
          THEN IF failures + 1 >= 500
               THEN /\ failures' = 0
                    /\ local_mintrades' = Max(1, (local_mintrades * 9) \div 10)
               ELSE /\ failures' = failures + 1
                    /\ local_mintrades' = local_mintrades
          ELSE /\ failures' = 0
               /\ local_mintrades' = local_mintrades]_vars

\* C8 witness: two runs of 500 failures have taken the minimum from 5 to 4
\* and from 4 to 3.
C8_Witness ==
    /\ pc = "init"
    /\ cfg.mintrd = 5
    /\ n_evals = 1000
    /\ failures = 0
    /\ local_mintrades = 3

\* C9: a trial of the over-initialization changes at most one slot of pop1;
\* the slot changed held the smallest stored score, the trial is valid and
\* its score strictly greater, and the slot now holds the trial; a trial
\* that is not strictly better than the worst changes nothing.  When the
\* initialization completes, the scores of pop1 are the popsize highest
\* scores of all the valid trials.
C9_OverinitKeepsBest ==
    /\ [][(pc = "init" /\ ind >= cfg.popsize) =>
             LET nv      == cfg.nvars
                 changed == { s \in Slots(cfg) : pop1'[s] # pop1[s] }
                 lowest  == CHOOSE v \in { pop1[s][nv] : s \in Slots(cfg) } :
                               \A t \in Slots(cfg) : v <= pop1[t][nv]
             IN  /\ Cardinality(changed) <= 1
                 /\ \A s \in changed :
                       /\ pop1[s][nv] = lowest
                       /\ value' > 0
                       /\ value' > lowest
                       /\ pop1'[s] = pop2'[0]
                 /\ (value' > 0 /\ value' > lowest) =>
                       \E s \in Slots(cfg) : pop1[s][nv] = lowest /\ pop1'[s] = pop2'[0]
                 /\ \A s \in Slots(cfg) : pop1'[s][nv] # Undef]_vars
    /\ [](pc = "init_done" =>
             LET kept    == ScoreBag(pop1, 0)
                 dropped == trials (-) kept
             IN  /\ kept \sqsubseteq trials
                 /\ BagCardinality(kept) = cfg.popsize
                 /\ BagCardinality(trials) = cfg.popsize + cfg.overinit
                 /\ \A d \in BagToSet(dropped) : \A s \in Slots(cfg) :
                       d <= pop1[s][cfg.nvars])

\* C9 witness: the initialization has completed after two over-initialization
\* trials, the last of which evicted a member of pop1.
C9_Witness ==
    /\ pc = "init_done"
    /\ cfg.overinit = 2
    /\ BagCardinality(trials) = cfg.popsize + 2
    /\ \E s \in Slots(cfg) : pop1[s] = pop2[0]
    /\ \E d \in BagToSet(trials) : \A s \in Slots(cfg) : d < pop1[s][cfg.nvars]

\* C10 as stated: a hill-climb step that does not improve the score (integer:
\* neither direction gives a strictly greater score; real: the score at the
\* refined point is not strictly greater) leaves the destination slot,
\* parameters and score, exactly as it was before the step, and value
\* unchanged.
C10_RejectedClimbUndone ==
    [][(pc = "climb" /\ pc' \in {"int_no_success", "real_no_success"}) =>
          /\ NewGen'[ind] = NewGen[ind]
          /\ value' = value]_vars

\* C10 amended: the same, for arguments whose integer dimensions have
\* whole-number bounds, so that the parameter an integer hill-climb starts
\* from is the whole number it writes back.
C10_RejectedClimbUndoneWholeIntBounds ==
    [][(IntegralBounds(cfg) /\ pc = "climb"
           /\ pc' \in {"int_no_success", "real_no_success"}) =>
          /\ NewGen'[ind] = NewGen[ind]
          /\ value' = value]_vars

\* C10 witness: a real hill-climb has been rejected on a slot whose stored
\* score is the value the step began with.
C10_Witness ==
    /\ IntegralBounds(cfg)
    /\ pc = "real_no_success"
    /\ value = NewGen[ind][cfg.nvars]

\* C11: the crossover loop gives every dimension of the child either the
\* value of parent1 or the mutated value parent2 + mutate_dev * (diff1 -
\* diff2), and at least one dimension the mutated value; with pcross = 0 the
\* last dimension visited, (start + nvars - 1) mod nvars, has the mutated
\* value and every other dimension the value of parent1.
C11_CrossoverForcesOne ==
    call.op = "crossover" =>
        LET nv      == cfg.nvars
            mutv(d) == call.parent2[d] + MulDev(cfg, call.diff1[d] - call.diff2[d])
            last    == (call.start + nv - 1) % nv
        IN  /\ \A d \in Vars(cfg) : call.child[d] \in {call.parent1[d], mutv(d)}
            /\ \E d \in Vars(cfg) : call.child[d] = mutv(d)
            /\ cfg.pcross = 0 =>
                  /\ call.child[last] = mutv(last)
                  /\ \A d \in Vars(cfg) \ {last} : call.child[d] = call.parent1[d]

\* C11 witness: with pcross = 0 and the start at parameter 1, the child
\* differs from parent1 in parameter 0 alone.
C11_Witness ==
    /\ call.op = "crossover"
    /\ cfg.pcross = 0
    /\ call.start = 1
    /\ call.child[0] # call.parent1[0]
    /\ call.child[1] = call.parent1[1]
    /\ call.child[2] = call.parent1[2]
    /\ call.parent2[1] # call.parent1[1]

\* C12: on every path on which collect(1) was called, collect(0) has been
\* called when diff_ev returns: the collection toggle is off at the return.
C12_CollectOffAtReturn == pc = "done" => ~collecting

\* C13: inside a generation the improved flag is set exactly by the steps
\* that update BestSoFar, so at the end of a generation the count of bad
\* generations becomes 0 when BestSoFar was updated in it and grows by one
\* when it was not: it is the number of the latest generations in a row
\* without an update.  The loop is left at the end of the first generation
\* at which the count exceeds max_bad_gen, so not before generation
\* max_bad_gen + 1, and inside the loop the count never exceeds max_bad_gen.
C13_BadGenerationCount ==
    /\ [][pc = "gen_start" => improved' = 0 /\ best' = best]_vars
    /\ [][(pc \in {"child", "climb"} \cup StepDone) =>
             improved' = (IF best' # best THEN 1 ELSE improved)]_vars
    /\ [][pc = "gen_end" =>
             /\ bad_generations' = IF improved = 1 THEN 0 ELSE bad_generations + 1
             /\ pc' = (IF bad_generations' > cfg.max_bad_gen THEN "paramcor" ELSE "gen_start")
             /\ pc' = "gen_start" => generation' = generation + 1]_vars
    /\ [](pc \in GenPCs \ {"paramcor"} =>
             /\ improved \in {0, 1} \/ pc = "gen_start"
             /\ 0 <= bad_generations /\ bad_generations <= cfg.max_bad_gen
             /\ bad_generations < generation)
    /\ [](pc = "paramcor" =>
             /\ bad_generations = cfg.max_bad_gen + 1
             /\ generation >= cfg.max_bad_gen + 1)

\* C13 witness: with max_bad_gen = 1 the loop has been left at the end of a
\* generation later than the second, so that a generation that updated
\* BestSoFar reset the count on the way.
C13_Witness ==
    /\ pc = "paramcor"
    /\ cfg.max_bad_gen = 1
    /\ generation > 2
    /\ bad_generations = 2

\* C14: the report step leaves ret_code 0 or sets it to a nonzero code and
\* touches neither best nor params; diff_ev returns 1 only when the
\* allocation failed, and then the scoring function was never called and
\* nothing was written; a return with any other nonzero code, from a failed
\* report, has params equal to BestSoFar, parameters and score.
C14_ReportFailureKeepsBest ==
    /\ [][(pc = "paramcor") =>
             /\ ret_code' \in {0, -1}
             /\ best' = best /\ grand_best' = grand_best /\ params' = params]_vars
    /\ [](pc = "done" /\ ret_code = 1 =>
             /\ value = Undef /\ n_evals = Undef /\ grand_best = Undef
             /\ pop1 = UndefPop(cfg) /\ pop2 = UndefPop(cfg)
             /\ params = UndefVec(cfg))
    /\ [](pc = "done" /\ ret_code \notin {0, 1} =>
             /\ n_evals >= cfg.popsize
             /\ params = best
             /\ params[cfg.nvars] = grand_best
             /\ \A i \in Dims(cfg) : params[i] # Undef)

\* C14 witness: diff_ev has returned the code of a failed report with the
\* best of a run of more than one generation in params.
C14_Witness ==
    /\ pc = "done"
    /\ ret_code = -1
    /\ generation > 1
    /\ params = best
    /\ params[cfg.nvars] = grand_best

\* A run whose initialization was aborted by the safety escape: it is at
\* FINISHED or has returned, and never reached the generation loop.
Aborted == pc \in {"finished", "done"} /\ n_evals # Undef /\ generation = Undef

\* C15: a sentinel trial that takes n_evals above max_evals sends diff_ev to
\* FINISHED with result code 0; from there it returns with params equal to
\* BestSoFar as it stood at the abort, the result code still 0, and neither
\* the generation loop nor the correlation report has run.
C15_AbortReturnsBest ==
    /\ [][(pc = "init" /\ value' <= 0 /\ n_evals' > cfg.max_evals) =>
             pc' = "finished" /\ ret_code' = 0]_vars
    /\ [][(pc = "finished") =>
             /\ pc' = "done"
             /\ params' = best /\ best' = best /\ ret_code' = ret_code]_vars
    /\ [](Aborted =>
             /\ ret_code = 0
             /\ n_evals > cfg.max_evals
             /\ old_gen = "none" /\ bad_generations = Undef /\ ibest = Undef
             /\ pc = "done" => params = best /\ params[cfg.nvars] = grand_best)

\* C15 witness: an aborted run has returned a valid candidate found before
\* the abort.
C15_Witness ==
    /\ Aborted
    /\ pc = "done"
    /\ ret_code = 0
    /\ params = best
    /\ params[cfg.nvars] > 0

\* The amount, in steps of the grid, by which v lies outside the bounds of dimension i.
Overshoot(i, v) ==
    IF v > cfg.high_bounds[i] THEN v - cfg.high_bounds[i]
    ELSE IF v < cfg.low_bounds[i] THEN cfg.low_bounds[i] - v
    ELSE 0

\* The sum of f over the dimensions i, i + 1, ...
RECURSIVE SumOver(_, _)
SumOver(f, i) == IF i >= cfg.nvars THEN 0 ELSE f[i] + SumOver(f, i + 1)

\* One half on the grid of the arguments.
Half == cfg.unit \div 2

\* The whole number nearest to v, a half going away from zero.
Nearest(v) ==
    CHOOSE r \in (v - Half) .. (v + Half) :
        r % cfg.unit = 0 /\ (Abs(r - v) = Half => Abs(r) > Abs(v))

\* C16 as stated: the penalty ensure_legal returns is 1e10 times the sum,
\* over the dimensions, of the amount by which the value passed in lies
\* outside the bounds, before any rounding (penalties are held as the sum of
\* the amounts, in steps of the grid).
C16_PenaltyOfPassedValue ==
    call.op = "ensure_legal" =>
        call.penalty = SumOver([i \in Vars(cfg) |-> Overshoot(i, call.x[i])], 0)

\* The value of dimension i that ensure_legal compares with the bounds when
\* it is passed v: the nearest whole number for an integer dimension, v
\* itself for a real one.
Compared(i, v) == IF i < cfg.nints THEN Nearest(v) ELSE v

\* Dimension i is an integer dimension with whole-number bounds.
WholeBounds(i) ==
    i < cfg.nints /\ cfg.low_bounds[i] % cfg.unit = 0 /\ cfg.high_bounds[i] % cfg.unit = 0

\* C16 amended: the penalty is 1e10 times the sum, over the dimensions, of
\* the amount by which the value lies outside the bounds after an integer
\* dimension has been rounded to the nearest whole number, a half going away
\* from zero (a real dimension is taken as passed in).  So, the other
\* dimensions adding nothing, an integer dimension with whole-number bounds
\* adds nothing when it is passed a value less than one half outside a
\* bound, which is rounded onto the bound; passed a value exactly one half
\* outside, it adds a whole unit when the value is rounded away from the
\* bound (above a bound >= 0, below a bound <= 0) and nothing when it is
\* rounded onto it (above a negative bound, below a positive one).
C16_PenaltyOfRoundedValue ==
    call.op = "ensure_legal" =>
        /\ call.penalty =
               SumOver([i \in Vars(cfg) |-> Overshoot(i, Compared(i, call.x[i]))], 0)
        /\ \A i \in Vars(cfg) :
              (/\ WholeBounds(i)
               /\ \A j \in Vars(cfg) \ {i} : Overshoot(j, Compared(j, call.x[j])) = 0) =>
                  LET v    == call.x[i]
                      over == Overshoot(i, v)
                      away == (v > cfg.high_bounds[i] /\ v >= 0)
                              \/ (v < cfg.low_bounds[i] /\ v < 0)
                  IN  /\ (0 < over /\ over < Half) =>
                            /\ call.penalty = 0
                            /\ call.out[i] \in {cfg.low_bounds[i], cfg.high_bounds[i]}
                      /\ (over = Half /\ away) => call.penalty = Whole(cfg, 1)
                      /\ (over = Half /\ ~away) => call.penalty = 0

\* C16 witness: on the grid of quarters ensure_legal was given an integer
\* parameter one half below its lower bound 1, an integer parameter one
\* quarter above its upper bound -1 and a real parameter one quarter above
\* its upper bound; it returned the penalty of the quarter of the real
\* parameter alone, and left the integer parameters on their bounds.
C16_Witness ==
    /\ call.op = "ensure_legal"
    /\ cfg.unit = 4
    /\ WholeBounds(0) /\ WholeBounds(1)
    /\ cfg.low_bounds[0] > 0 /\ call.x[0] = cfg.low_bounds[0] - Half
    /\ cfg.high_bounds[1] < 0 /\ call.x[1] = cfg.high_bounds[1] + 1
    /\ call.x[2] = cfg.high_bounds[2] + 1
    /\ call.penalty = 1
    /\ call.out[0] = cfg.low_bounds[0]
    /\ call.out[1] = cfg.high_bounds[1]

\* The vector x and the vector y agree on every parameter.
SameParams(x, y) == \A i \in Vars(cfg) : x[i] = y[i]

\* C17 as stated: ensure_legal given a vector with every parameter within
\* its bounds returns penalty 0 and leaves the vector as it was; and a
\* second call on what a first call left returns 0 and changes nothing.
C17_LegalIsNoOp ==
    call.op = "ensure_legal" =>
        /\ (\A i \in Vars(cfg) : Overshoot(i, call.x[i]) = 0) =>
               call.penalty = 0 /\ SameParams(call.out, call.x)
        /\ call.penalty2 = 0 /\ SameParams(call.out2, call.out)

\* C17 amended: ensure_legal given a vector with every parameter within its
\* bounds and whole numbers in the integer dimensions returns penalty 0 and
\* leaves the vector as it was; when the bounds of the integer dimensions
\* are whole numbers, a second call on what a first call left returns 0 and
\* changes nothing.
C17_LegalIsNoOpOnWholeInts ==
    call.op = "ensure_legal" =>
        /\ ((\A i \in Vars(cfg) : Overshoot(i, call.x[i]) = 0) /\ WholeInts(call.x)) =>
               call.penalty = 0 /\ SameParams(call.out, call.x)
        /\ IntegralBounds(cfg) =>
               call.penalty2 = 0 /\ SameParams(call.out2, call.out)

\* C17 witness: a first call clamped and rounded a vector that was out of
\* bounds, with whole-number integer bounds, and the second call found
\* nothing to do.
C17_Witness ==
    /\ call.op = "ensure_legal"
    /\ IntegralBounds(cfg)
    /\ call.penalty > 0
    /\ ~WholeInts(call.x)
    /\ ~SameParams(call.out, call.x)
    /\ call.penalty2 = 0
    /\ SameParams(call.out2, call.out)

\* C18: from the top of a generation to its end (children, selection,
\* integer and real hill-climbs with the writes of c_func) no step changes
\* the buffer old_gen points to or the pointers old_gen and new_gen, a step
\* changes at most slot ind of the buffer new_gen points to, and from the
\* first generation to the correlation report old_gen and new_gen each
\* point to one of the two buffers and never to the same one.
C18_OldGenerationUntouched ==
    /\ [][(pc \in {"gen_start", "child", "climb"} \cup StepDone) =>
             /\ old_gen' = old_gen /\ new_gen' = new_gen
             /\ OldGen' = OldGen
             /\ \A s \in Slots(cfg) \ {ind} : NewGen'[s] = NewGen[s]]_vars
    /\ [](pc \in GenPCs =>
             /\ old_gen \in {"pop1", "pop2"}
             /\ new_gen \in {"pop1", "pop2"}
             /\ old_gen # new_gen)

\* C18 witness: in a generation whose parents are in pop2, a hill-climb has
\* improved a member of pop1.
C18_Witness ==
    /\ pc \in {"int_success", "real_success"}
    /\ old_gen = "pop2" /\ new_gen = "pop1"
    /\ pop1[ind] # pop2[ind]

\* C19: the end of a generation that does not end the loop swaps the roles
\* of the buffers, improved or not, and changes neither buffer, so the next
\* generation's parents are the candidates just written; the end of the
\* generation that ends the loop swaps nothing, so the population handed to
\* paramcor is the generation just written.
C19_SwapUnlessLast ==
    [][(pc = "gen_end") =>
          /\ pop1' = pop1 /\ pop2' = pop2
          /\ pc' \in {"gen_start", "paramcor"}
          /\ pc' = "gen_start" =>
                /\ old_gen' # old_gen
                /\ OldGen' = NewGen
                /\ NewGen' = OldGen
          /\ pc' = "paramcor" =>
                /\ old_gen' = old_gen
                /\ ParamCorPopulation' = NewGen]_vars

\* C19 witness: with max_bad_gen = 1 the third generation starts after a
\* generation that improved BestSoFar and one that did not, with the
\* buffers swapped twice.
C19_Witness ==
    /\ pc = "gen_start"
    /\ cfg.max_bad_gen = 1
    /\ generation = 3
    /\ bad_generations = 1
    /\ old_gen = "pop1"
    /\ pop1 # pop2

\* C20 as stated: the tweak counter of the reigning best never exceeds
\* nvars (a hill-climb of the best entered through the random draw, the
\* counter having reached nvars, leaves the counter alone).
C20_TweakCountCapped == pc \in GenPCs => n_tweaked <= cfg.nvars

\* C20 amended: while the counter is below nvars (and pclimb > 0) the best
\* individual is always hill-climbed; every hill-climb of the individual at
\* ibest, forced or entered through the random draw, works on parameter
\* generation mod nvars and adds one to the counter unless it ends with a
\* new BestSoFar, which sets the counter to 0; a hill-climb of any other
\* individual leaves the counter alone unless it ends with a new BestSoFar.
\* The counter can therefore exceed nvars; it never exceeds the number of
\* generations begun.
C20_TweakCountCountsEveryClimbOfBest ==
    /\ [][(pc = "climb") =>
             /\ (cfg.pclimb > 0 /\ ind = ibest /\ n_tweaked < cfg.nvars) => pc' \in ClimbDone
             /\ pc' \in ClimbDone =>
                   /\ n_tweaked' = (IF best' # best THEN 0
                                    ELSE IF ind = ibest THEN n_tweaked + 1
                                    ELSE n_tweaked)
                   /\ ind = ibest =>
                         \A d \in Vars(cfg) \ {generation % cfg.nvars} :
                            NewGen'[ind][d] = NewGen[ind][d]
             /\ pc' \notin ClimbDone => n_tweaked' = n_tweaked]_vars
    /\ [](pc \in GenPCs => 0 <= n_tweaked /\ n_tweaked <= generation)

\* C20 witness: the best individual has been hill-climbed with the counter
\* already at nvars, which took it to nvars + 1.
C20_Witness ==
    /\ pc \in ClimbDone
    /\ ind = ibest
    /\ n_tweaked = cfg.nvars + 1

\* C21: with popsize >= 4, for every individual ind the three subscripts
\* picked for parent2, diff1 and diff2 lie in 0..popsize-1, differ from one
\* another and from ind; parent2, diff1 and diff2 point to the members at
\* those subscripts whatever the variables i, j and k hold after the
\* starting parameter, the crossover loop and the hill-climb choice have
\* reused them.
C21_ParentsDistinct ==
    (call.op = "parents" /\ cfg.popsize >= 4) =>
        LET p == call.picked
        IN  /\ {p.i, p.j, p.k} \subseteq 0 .. (cfg.popsize - 1)
            /\ Cardinality({call.ind, p.i, p.j, p.k}) = 4
            /\ call.parent2 = p.i /\ call.diff1 = p.j /\ call.diff2 = p.k
            /\ call.i = -1 /\ call.j = call.start

\* C21 witness: individual 2 of a population of five, hill-climbed, took
\* members 4, 0 and 3, and none of i, j, k still holds the subscript it was
\* picked with.
C21_Witness ==
    /\ call.op = "parents"
    /\ cfg.popsize = 5
    /\ cfg.pclimb > 0
    /\ call.ind = 2
    /\ call.parent2 = 4 /\ call.diff1 = 0 /\ call.diff2 = 3
    /\ call.i # 4 /\ call.j # 0 /\ call.k # 3

\* The initialization has filled the population and the trial loop was left
\* at its end: diff_ev is at line 197 or beyond, and not by the safety escape.
InitComplete == pc = "init_done" \/ generation # Undef

\* C22: once the initialization has completed normally, the score stored in
\* BestSoFar is grand_best, every written member of either population buffer
\* has a stored score that is above 0 and not above the score of BestSoFar,
\* and the score returned in params is grand_best and is not below the
\* stored score of any member of the final population.
C22_BestDominatesMembers ==
    InitComplete =>
        LET nv == cfg.nvars
        IN  /\ best[nv] = grand_best
            /\ \A x \in Members : 0 < x[nv] /\ x[nv] <= best[nv]
            /\ pc = "done" =>
                  /\ params[nv] = grand_best
                  /\ \A s \in Slots(cfg) :
                        /\ ParamCorPopulation[s][nv] # Undef
                        /\ ParamCorPopulation[s][nv] <= params[nv]

\* C22 witness: a run with no bad generation allowed has returned after two
\* generations or more, so BestSoFar was replaced in the generation loop; a
\* member of the final population has the returned score and another a lower
\* one, and the work slot of the over-initialization has been written.
C22_Witness ==
    /\ pc = "done"
    /\ cfg.max_bad_gen = 0
    /\ cfg.overinit > 0
    /\ generation >= 2
    /\ \E s, t \in Slots(cfg) :
          /\ ParamCorPopulation[s][cfg.nvars] = params[cfg.nvars]
          /\ ParamCorPopulation[t][cfg.nvars] < params[cfg.nvars]

====
